---- MODULE Spec2Model ----
(***************************************************************************)
(* A model of src/matrix.js: the SparseMatrix class (constructor,          *)
(* fromFile, getElement, setElement, add, subtract, multiply, toString)    *)
(* and the interactive driver performCalculations.                         *)
(*                                                                         *)
(* Text is a sequence of one-character strings.  Matrix objects live in a  *)
(* heap (mats) and are named by their index, so that aliasing of operands  *)
(* and the allocation of results are explicit.                             *)
(***************************************************************************)
EXTENDS Integers, Sequences, FiniteSets, TLC

VARIABLES
    mats,       \* the heap: the SparseMatrix objects, named by their index
    declared,   \* per object, the (rows, cols) its constructor was given
    lastOp,     \* the last call made and how it ended
    nsets,      \* the number of setElement calls made by the caller
    nops,       \* the number of arithmetic expressions evaluated
    disk,       \* the file system: path -> text, NoFile or Directory
    pc,         \* the await at which performCalculations is suspended
    locals,     \* its matrix1, matrix2 and resultMatrix (0: not yet bound)
    log         \* what it has written to the console and done to readline

vars == <<mats, declared, lastOp, nsets, nops, disk, pc, locals, log>>

driverVars == <<pc, locals, log>>

(* ------------------------------ bounds -------------------------------- *)

MaxDim == 1
MaxCoord == 1
MaxVal == 1
MaxSets == 2
MaxOperands == 2
MaxOps == 1
BigCoord == 10
BigVal == 12

(* ------------------------------ text ---------------------------------- *)

\* F applied to the value of x: const v = x; return F(v).
With(x, F(_)) == CHOOSE r \in {F(v) : v \in {x}} : TRUE

Digits == <<"0", "1", "2", "3", "4", "5", "6", "7", "8", "9">>

IsDigit(c) == \E d \in 1..10 : Digits[d] = c

DigitVal(c) == (CHOOSE d \in 1..10 : Digits[d] = c) - 1

NaN == "NaN"

\* String(n) of a non-negative integer, as a template literal renders it.
RECURSIVE NatToStr(_)
NatToStr(n) ==
    IF n < 10 THEN <<Digits[n + 1]>>
    ELSE NatToStr(n \div 10) \o <<Digits[(n % 10) + 1]>>

\* `${n}` for an integer n.
NumToStr(n) == IF n < 0 THEN <<"-">> \o NatToStr(-n) ELSE NatToStr(n)

AllDigits(s) == \A i \in 1..Len(s) : IsDigit(s[i])

RECURSIVE DigitsToNat(_, _)
DigitsToNat(s, acc) ==
    IF s = <<>> THEN acc
    ELSE DigitsToNat(Tail(s), acc * 10 + DigitVal(Head(s)))

\* Number(s) / parseInt(s) on the strings the program gives them: an
\* optional '-' and decimal digits; anything else is NaN.
Number(s) ==
    IF s # <<>> /\ AllDigits(s) THEN DigitsToNat(s, 0)
    ELSE IF Len(s) > 1 /\ s[1] = "-" /\ AllDigits(Tail(s))
         THEN 0 - DigitsToNat(Tail(s), 0)
    ELSE NaN

\* s.split(sep) for a one-character separator.
RECURSIVE Split(_, _)
Split(s, sep) ==
    IF \A i \in 1..Len(s) : s[i] # sep THEN <<s>>
    ELSE With(CHOOSE i \in 1..Len(s) : s[i] = sep /\ \A j \in 1..(i - 1) : s[j] # sep,
              LAMBDA p : <<SubSeq(s, 1, p - 1)>> \o Split(SubSeq(s, p + 1, Len(s)), sep))

\* The Map key `${row},${col}`.
Key(row, col) == NumToStr(row) \o <<",">> \o NumToStr(col)

\* key.split(',').map(Number)
KeyCoords(key) ==
    With(Split(key, ","), LAMBDA parts : [i \in 1..Len(parts) |-> Number(parts[i])])

(* ----------------------- trimming and matching ------------------------- *)

IsSpace(c) == c \in {" ", "\t", "\r", "\n"}

\* The character at position i, or "" past either end.
CharAt(s, i) == IF i \in 1..Len(s) THEN s[i] ELSE ""

RECURSIVE TrimStart(_)
TrimStart(s) == IF s # <<>> /\ IsSpace(Head(s)) THEN TrimStart(Tail(s)) ELSE s

RECURSIVE TrimEnd(_)
TrimEnd(s) ==
    IF s # <<>> /\ IsSpace(s[Len(s)]) THEN TrimEnd(SubSeq(s, 1, Len(s) - 1)) ELSE s

\* String.prototype.trim
Trim(s) == TrimEnd(TrimStart(s))

\* The length of the longest run of digits (\d+, greedy) starting at i.
RECURSIVE DigitRun(_, _)
DigitRun(s, i) == IF IsDigit(CharAt(s, i)) THEN 1 + DigitRun(s, i + 1) ELSE 0

\* The length of the longest run of whitespace (\s*, greedy) starting at i.
RECURSIVE SpaceRun(_, _)
SpaceRun(s, i) == IF IsSpace(CharAt(s, i)) THEN 1 + SpaceRun(s, i + 1) ELSE 0

HasPrefixAt(s, i, lit) == \A j \in 1..Len(lit) : CharAt(s, i + j - 1) = lit[j]

NoMatch == [found |-> FALSE, groups |-> <<>>]

\* Where a match of a pattern may start in a line: match() searches the
\* whole line for the leftmost match.
MatchStarts(line) == 1..Len(line)

\* line.match(/<lit>(\d+)/) for lit = "rows=" or "cols=".
DimMatchAt(line, lit, p) ==
    /\ HasPrefixAt(line, p, lit)
    /\ DigitRun(line, p + Len(lit)) >= 1

\* The least member of a non-empty set of positions.
Leftmost(starts) == CHOOSE q \in starts : \A q2 \in starts : q <= q2

DimMatch(line, lit) ==
    With({p \in MatchStarts(line) : DimMatchAt(line, lit, p)}, LAMBDA starts :
        IF starts = {} THEN NoMatch
        ELSE With(Leftmost(starts) + Len(lit), LAMBDA d :
                 [found |-> TRUE,
                  groups |-> <<SubSeq(line, d, d + DigitRun(line, d) - 1)>>]))

\* A variant for a pattern whose third group is (\d+): no sign.
ElemPieces_Unsigned(line, p) ==
    With(DigitRun(line, p + 1), LAMBDA n1 :
    With(p + 1 + n1, LAMBDA c1 :
    With(c1 + 1 + SpaceRun(line, c1 + 1), LAMBDA a2 :
    With(DigitRun(line, a2), LAMBDA n2 :
    With(a2 + n2, LAMBDA c2 :
    With(c2 + 1 + SpaceRun(line, c2 + 1), LAMBDA a3 :
    With(DigitRun(line, a3), LAMBDA n3 :
        [a1 |-> p + 1, n1 |-> n1, c1 |-> c1, a2 |-> a2, n2 |-> n2, c2 |-> c2,
         a3 |-> a3, n3 |-> n3, close |-> a3 + n3, sg |-> 0])))))))

\* The positions of the pieces of /\((\d+),\s*(\d+),\s*(-?\d+)\)/ tried at p.
ElemPieces(line, p) ==
    With(DigitRun(line, p + 1), LAMBDA n1 :
    With(p + 1 + n1, LAMBDA c1 :
    With(c1 + 1 + SpaceRun(line, c1 + 1), LAMBDA a2 :
    With(DigitRun(line, a2), LAMBDA n2 :
    With(a2 + n2, LAMBDA c2 :
    With(c2 + 1 + SpaceRun(line, c2 + 1), LAMBDA a3 :
    With(IF CharAt(line, a3) = "-" THEN 1 ELSE 0, LAMBDA sg :
    With(DigitRun(line, a3 + sg), LAMBDA n3 :
        [a1 |-> p + 1, n1 |-> n1, c1 |-> c1, a2 |-> a2, n2 |-> n2, c2 |-> c2,
         a3 |-> a3, n3 |-> n3, close |-> a3 + sg + n3, sg |-> sg]))))))))

ElemMatchAt(line, p) ==
    \E e \in {ElemPieces(line, p)} :
        /\ CharAt(line, p) = "("
        /\ e.n1 >= 1
        /\ CharAt(line, e.c1) = ","
        /\ e.n2 >= 1
        /\ CharAt(line, e.c2) = ","
        /\ e.n3 >= 1
        /\ CharAt(line, e.close) = ")"

\* line.match(/\((\d+),\s*(\d+),\s*(-?\d+)\)/)
ElemMatch(line) ==
    With({p \in MatchStarts(line) : ElemMatchAt(line, p)}, LAMBDA starts :
        IF starts = {} THEN NoMatch
        ELSE With(ElemPieces(line, Leftmost(starts)), LAMBDA e :
                 [found |-> TRUE,
                  groups |-> <<SubSeq(line, e.a1, e.a1 + e.n1 - 1),
                               SubSeq(line, e.a2, e.a2 + e.n2 - 1),
                               SubSeq(line, e.a3, e.close - 1)>>]))

\* parseInt on a captured group (decimal digits, possibly signed).
parseInt(s) == Number(s)

RowsEq == <<"r", "o", "w", "s", "=">>

ColsEq == <<"c", "o", "l", "s", "=">>

(* --------------------------- the element Map --------------------------- *)

MapHas(elements, key) == \E i \in 1..Len(elements) : elements[i].key = key

MapIndex(elements, key) == CHOOSE i \in 1..Len(elements) : elements[i].key = key

\* Map.prototype.set: a present key keeps its place, a new key goes last.
MapSet(elements, key, value) ==
    IF MapHas(elements, key)
    THEN [elements EXCEPT ![MapIndex(elements, key)].value = value]
    ELSE Append(elements, [key |-> key, value |-> value])

(* --------------------------- SparseMatrix ------------------------------ *)

\* A store is the heap of matrix objects together with the arguments each
\* object's constructor was called with.
SparseMatrixNew(st, rows, cols) ==
    [mats |-> Append(st.mats, [rows |-> rows, cols |-> cols, elements |-> <<>>]),
     declared |-> Append(st.declared, [rows |-> rows, cols |-> cols])]

getElement(m, row, col) ==
    With(Key(row, col), LAMBDA key :
        IF MapHas(m.elements, key)
        THEN With(m.elements[MapIndex(m.elements, key)].value,
                  LAMBDA v : IF v = 0 THEN 0 ELSE v)
        ELSE 0)

\* A variant that grows a dimension to the written index, not past it.
setElementOf_GrowToIndex(m, row, col, value) ==
    LET rows1 == IF row >= m.rows THEN row ELSE m.rows
        cols1 == IF col >= m.cols THEN col ELSE m.cols
    IN  [rows |-> rows1, cols |-> cols1,
         elements |-> MapSet(m.elements, Key(row, col), value)]

setElementOf(m, row, col, value) ==
    LET rows1 == IF row >= m.rows THEN row + 1 ELSE m.rows
        cols1 == IF col >= m.cols THEN col + 1 ELSE m.cols
    IN  [rows |-> rows1, cols |-> cols1,
         elements |-> MapSet(m.elements, Key(row, col), value)]

\* ref.setElement(row, col, value) on the object ref of the store.
setElement(st, ref, row, col, value) ==
    [st EXCEPT !.mats[ref] = setElementOf(@, row, col, value)]

\* An Error: its message, and the line number the message embeds (0: none).
Error(message, line) == [message |-> message, line |-> line]

NoError == Error("", 0)

Thrown(st, err) == [st |-> st, ok |-> FALSE, error |-> err, result |-> 0]

Returned(st, ref) == [st |-> st, ok |-> TRUE, error |-> NoError, result |-> ref]

\* A variant that accumulates into the receiver instead of a fresh object.
ResultRef_This(st, this, other) == this

\* The object a fresh arithmetic result is written to.
ResultRef(st, this, other) == Len(st.mats) + 1

\* for (const [key, value] of this.elements) result.setElement(row, col, value)
RECURSIVE copyLoop(_, _, _)
copyLoop(st, result, elems) ==
    IF elems = <<>> THEN st
    ELSE With(KeyCoords(Head(elems).key), LAMBDA rc :
             copyLoop(setElement(st, result, rc[1], rc[2], Head(elems).value),
                      result, Tail(elems)))

RECURSIVE addLoop(_, _, _)
addLoop(st, result, elems) ==
    IF elems = <<>> THEN st
    ELSE With(KeyCoords(Head(elems).key), LAMBDA rc :
         With(getElement(st.mats[result], rc[1], rc[2]), LAMBDA currentValue :
             addLoop(setElement(st, result, rc[1], rc[2],
                                currentValue + Head(elems).value),
                     result, Tail(elems))))

\* A variant whose second loop stores other's value instead of the sum.
add_Overwrite(st, this, other) ==
    IF st.mats[this].rows # st.mats[other].rows
       \/ st.mats[this].cols # st.mats[other].cols
    THEN Thrown(st, Error("Matrices must have the same dimensions for addition.", 0))
    ELSE With(ResultRef(st, this, other), LAMBDA result :
         With(IF result > Len(st.mats)
              THEN SparseMatrixNew(st, st.mats[this].rows, st.mats[this].cols)
              ELSE st, LAMBDA st0 :
         With(copyLoop(st0, result, st0.mats[this].elements), LAMBDA st1 :
             Returned(copyLoop(st1, result, st1.mats[other].elements), result))))

add(st, this, other) ==
    IF st.mats[this].rows # st.mats[other].rows
       \/ st.mats[this].cols # st.mats[other].cols
    THEN Thrown(st, Error("Matrices must have the same dimensions for addition.", 0))
    ELSE With(ResultRef(st, this, other), LAMBDA result :
         With(IF result > Len(st.mats)
              THEN SparseMatrixNew(st, st.mats[this].rows, st.mats[this].cols)
              ELSE st, LAMBDA st0 :
         With(copyLoop(st0, result, st0.mats[this].elements), LAMBDA st1 :
             Returned(addLoop(st1, result, st1.mats[other].elements), result))))

RECURSIVE subtractLoop(_, _, _)
subtractLoop(st, result, elems) ==
    IF elems = <<>> THEN st
    ELSE With(KeyCoords(Head(elems).key), LAMBDA rc :
         With(getElement(st.mats[result], rc[1], rc[2]), LAMBDA currentValue :
             subtractLoop(setElement(st, result, rc[1], rc[2],
                                     currentValue - Head(elems).value),
                          result, Tail(elems))))

\* A variant whose second loop is add's: the value is added, not subtracted.
subtract_Adds(st, this, other) ==
    IF st.mats[this].rows # st.mats[other].rows
       \/ st.mats[this].cols # st.mats[other].cols
    THEN Thrown(st, Error("Matrices must have the same dimensions for subtraction.", 0))
    ELSE With(ResultRef(st, this, other), LAMBDA result :
         With(IF result > Len(st.mats)
              THEN SparseMatrixNew(st, st.mats[this].rows, st.mats[this].cols)
              ELSE st, LAMBDA st0 :
         With(copyLoop(st0, result, st0.mats[this].elements), LAMBDA st1 :
             Returned(addLoop(st1, result, st1.mats[other].elements), result))))

subtract(st, this, other) ==
    IF st.mats[this].rows # st.mats[other].rows
       \/ st.mats[this].cols # st.mats[other].cols
    THEN Thrown(st, Error("Matrices must have the same dimensions for subtraction.", 0))
    ELSE With(ResultRef(st, this, other), LAMBDA result :
         With(IF result > Len(st.mats)
              THEN SparseMatrixNew(st, st.mats[this].rows, st.mats[this].cols)
              ELSE st, LAMBDA st0 :
         With(copyLoop(st0, result, st0.mats[this].elements), LAMBDA st1 :
             Returned(subtractLoop(st1, result, st1.mats[other].elements), result))))

\* The test of the inner loop of multiply on the pair (value1, otherValue).
Contributes(value1, otherValue) == otherValue # 0

\* A variant that stores the product without the value accumulated so far.
RECURSIVE multiplyInner_NoAccumulate(_, _, _, _, _, _, _)
multiplyInner_NoAccumulate(st, result, other, row, col, value1, k) ==
    IF k >= st.mats[other].cols THEN st
    ELSE With(getElement(st.mats[other], col, k), LAMBDA otherValue :
             multiplyInner_NoAccumulate(
                 IF Contributes(value1, otherValue)
                 THEN setElement(st, result, row, k, value1 * otherValue)
                 ELSE st,
                 result, other, row, col, value1, k + 1))

\* for (let k = 0; k < other.cols; k++) { ... }
RECURSIVE multiplyInner(_, _, _, _, _, _, _)
multiplyInner(st, result, other, row, col, value1, k) ==
    IF k >= st.mats[other].cols THEN st
    ELSE With(getElement(st.mats[other], col, k), LAMBDA otherValue :
         With(getElement(st.mats[result], row, k), LAMBDA currentValue :
             multiplyInner(
                 IF Contributes(value1, otherValue)
                 THEN setElement(st, result, row, k, currentValue + value1 * otherValue)
                 ELSE st,
                 result, other, row, col, value1, k + 1)))

\* for (const [key1, value1] of this.elements) { ... }
RECURSIVE multiplyLoop(_, _, _, _)
multiplyLoop(st, result, other, elems) ==
    IF elems = <<>> THEN st
    ELSE With(KeyCoords(Head(elems).key), LAMBDA rc :
             multiplyLoop(
                 multiplyInner(st, result, other, rc[1], rc[2], Head(elems).value, 0),
                 result, other, Tail(elems)))

\* A variant that throws only when the receiver is the narrower one.
MultiplyMismatch_Less(thisCols, otherRows) == thisCols < otherRows

MultiplyMismatch(thisCols, otherRows) == thisCols # otherRows

multiply(st, this, other) ==
    IF MultiplyMismatch(st.mats[this].cols, st.mats[other].rows)
    THEN Thrown(st, Error("Number of columns of first matrix must equal number of rows of second matrix.", 0))
    ELSE With(ResultRef(st, this, other), LAMBDA result :
         With(IF result > Len(st.mats)
              THEN SparseMatrixNew(st, st.mats[this].rows, st.mats[other].cols)
              ELSE st, LAMBDA st0 :
             Returned(multiplyLoop(st0, result, other, st0.mats[this].elements),
                      result)))

\* toString(): the header, one line per stored element in the Map's order,
\* and the whole trimmed.
RECURSIVE elementLines(_)
elementLines(elems) ==
    IF elems = <<>> THEN <<>>
    ELSE With(Split(Head(elems).key, ","), LAMBDA parts :
             <<"(">> \o parts[1] \o <<",", " ">> \o parts[2] \o <<",", " ">>
             \o NumToStr(Head(elems).value) \o <<")", "\n">>
             \o elementLines(Tail(elems)))

toString(m) ==
    Trim(RowsEq \o NumToStr(m.rows) \o <<"\n">>
         \o ColsEq \o NumToStr(m.cols) \o <<"\n">>
         \o elementLines(m.elements))

\* The file system: a path holds a text, or NoFile when nothing is there
\* (no text has a member longer than one character).
NoFile == <<"ENOENT">>

\* A path that is a directory: reading it and writing it both fail.
Directory == <<"EISDIR">>

\* content.split('\n').map(line => line.trim())
TrimmedLines(content) ==
    With(Split(content, "\n"), LAMBDA raw : [i \in 1..Len(raw) |-> Trim(raw[i])])

\* for (let i = 2; i < lines.length; i++) { ... }, lines[i] being lines[i + 1] here
RECURSIVE parseElements(_, _, _, _)
parseElements(st, matrix, lines, i) ==
    IF i >= Len(lines) THEN Returned(st, matrix)
    ELSE With(lines[i + 1], LAMBDA line :
         With(ElemMatch(line), LAMBDA match :
             IF line = <<>> THEN parseElements(st, matrix, lines, i + 1)
             ELSE IF ~match.found
             THEN Thrown(st, Error("Invalid format at line", i + 1))
             ELSE parseElements(
                      setElement(st, matrix, parseInt(match.groups[1]),
                                 parseInt(match.groups[2]), parseInt(match.groups[3])),
                      matrix, lines, i + 1)))

\* SparseMatrix.fromFile(filePath) on the file system fs.  A parse that
\* throws leaves no object behind: the store is the caller's.
fromFile(st, fs, filePath) ==
    IF fs[filePath] = NoFile THEN Thrown(st, Error("File not found", 0))
    ELSE IF fs[filePath] = Directory
    THEN Thrown(st, Error("EISDIR: illegal operation on a directory, read", 0))
    ELSE With(TrimmedLines(fs[filePath]), LAMBDA lines :
             IF Len(lines) < 2
             THEN Thrown(st, Error("does not contain enough lines for matrix dimensions", 0))
             ELSE With(DimMatch(lines[1], RowsEq), LAMBDA rowMatch :
                  With(DimMatch(lines[2], ColsEq), LAMBDA colMatch :
                      IF ~rowMatch.found \/ ~colMatch.found
                      THEN Thrown(st, Error("Invalid dimension format", 0))
                      ELSE With(SparseMatrixNew(st, parseInt(rowMatch.groups[1]),
                                                parseInt(colMatch.groups[1])),
                                LAMBDA st0 :
                           With(parseElements(st0, Len(st0.mats), lines, 2), LAMBDA r :
                               IF r.ok THEN r ELSE Thrown(st, r.error))))))

\* saveToFile(filePath): fs.writeFileSync(filePath, this.toString())
saveToFile(fs, m, filePath) ==
    IF fs[filePath] = Directory
    THEN [ok |-> FALSE, fs |-> fs,
          error |-> Error("EISDIR: illegal operation on a directory, open", 0)]
    ELSE [ok |-> TRUE, fs |-> [fs EXCEPT ![filePath] = toString(m)], error |-> NoError]

(* ------------------------- the matrix operations ----------------------- *)

Store == [mats |-> mats, declared |-> declared]

Refs == 1..Len(mats)

NoOp ==
    [op |-> "none", this |-> 0, other |-> 0, ok |-> TRUE, error |-> NoError,
     result |-> 0, mid |-> 0, path |-> ""]

\* Sources to load operands from: two well-formed matrices, a source whose
\* third line is garbage, and a path with no file.
Join2(a, b) == a \o <<"\n">> \o b

ElemLine(row, col, value) ==
    <<"(">> \o NumToStr(row) \o <<",">> \o NumToStr(col) \o <<",">>
    \o NumToStr(value) \o <<")">>

Header(rows, cols) == Join2(RowsEq \o NumToStr(rows), ColsEq \o NumToStr(cols))

FileA == Join2(Join2(Header(2, 2), ElemLine(0, 0, 1)), ElemLine(0, 1, 2))

FileB == Join2(Join2(Header(2, 2), ElemLine(0, 0, 3)), ElemLine(1, 0, 4))

FileBad == Join2(Header(2, 2), <<"g", "a", "r", "b", "a", "g", "e">>)

SamplePaths == {"a.txt", "b.txt", "bad.txt", "missing.txt"}

SampleDisk ==
    [p \in SamplePaths |->
        CASE p = "a.txt" -> FileA
          [] p = "b.txt" -> FileB
          [] p = "bad.txt" -> FileBad
          [] OTHER -> NoFile]

NoLocals == [matrix1 |-> 0, matrix2 |-> 0, resultMatrix |-> 0]

\* performCalculations is not part of the run.
NotRunning == pc = "none" /\ locals = NoLocals /\ log = <<>>

Init ==
    /\ mats = <<>>
    /\ declared = <<>>
    /\ lastOp = NoOp
    /\ nsets = 0
    /\ nops = 0
    /\ disk = SampleDisk
    /\ NotRunning

\* new SparseMatrix(rows, cols)
Construct(dims, limit) ==
    \E rows \in dims, cols \in dims :
        /\ Len(mats) < limit
        /\ \E st \in {SparseMatrixNew(Store, rows, cols)} :
               /\ mats' = st.mats
               /\ declared' = st.declared
        /\ lastOp' = NoOp
        /\ UNCHANGED <<nsets, nops, disk, driverVars>>

\* SparseMatrix.fromFile(path)
Load(paths) ==
    \E path \in paths :
        /\ Len(mats) < MaxOperands
        /\ \E r \in {fromFile(Store, disk, path)} :
               /\ mats' = r.st.mats
               /\ declared' = r.st.declared
               /\ lastOp' = [NoOp EXCEPT !.op = "fromFile", !.ok = r.ok,
                                         !.error = r.error, !.result = r.result,
                                         !.path = path]
        /\ UNCHANGED <<nsets, nops, disk, driverVars>>

\* ref.setElement(row, col, value)
SetElement(coords, values) ==
    \E ref \in Refs, row \in coords, col \in coords, value \in values :
        /\ nsets < MaxSets
        /\ mats' = setElement(Store, ref, row, col, value).mats
        /\ nsets' = nsets + 1
        /\ lastOp' = [NoOp EXCEPT !.op = "setElement", !.this = ref]
        /\ UNCHANGED <<declared, nops, disk, driverVars>>

Arith(name, r, this, other, mid) ==
    /\ nops' = nops + 1
    /\ mats' = r.st.mats
    /\ declared' = r.st.declared
    /\ lastOp' = [NoOp EXCEPT !.op = name, !.this = this, !.other = other,
                              !.ok = r.ok, !.error = r.error,
                              !.result = r.result, !.mid = mid]
    /\ UNCHANGED <<nsets, disk, driverVars>>

\* this.add(other)
Add ==
    \E this \in Refs, other \in Refs :
        /\ nops < MaxOps
        /\ \E r \in {add(Store, this, other)} : Arith("add", r, this, other, 0)

\* this.subtract(other)
Subtract ==
    \E this \in Refs, other \in Refs :
        /\ nops < MaxOps
        /\ \E r \in {subtract(Store, this, other)} : Arith("subtract", r, this, other, 0)

\* this.multiply(other)
Multiply ==
    \E this \in Refs, other \in Refs :
        /\ nops < MaxOps
        /\ \E r \in {multiply(Store, this, other)} : Arith("multiply", r, this, other, 0)

\* this.add(other).subtract(other): the sum is a temporary of the expression.
AddSubtract ==
    \E this \in Refs, other \in Refs :
        /\ nops < MaxOps
        /\ \E sum \in {add(Store, this, other)} :
               IF sum.ok
               THEN \E r \in {subtract(sum.st, sum.result, other)} :
                        Arith("add.subtract", r, this, other, sum.result)
               ELSE Arith("add.subtract", sum, this, other, 0)

Coords == 0..MaxCoord

Values == (0 - MaxVal)..MaxVal

Next ==
    \/ Construct(0..MaxDim, MaxOperands)
    \/ Load(SamplePaths)
    \/ SetElement(Coords, Values)
    \/ Add
    \/ Subtract
    \/ Multiply
    \/ AddSubtract

Spec == Init /\ [][Next]_vars

(* --------------------- serializing and parsing back -------------------- *)

\* ref.saveToFile(path)
Save(paths) ==
    \E ref \in Refs, path \in paths :
        /\ \E w \in {saveToFile(disk, mats[ref], path)} :
               /\ disk' = w.fs
               /\ lastOp' = [NoOp EXCEPT !.op = "saveToFile", !.this = ref,
                                         !.path = path, !.ok = w.ok, !.error = w.error]
        /\ UNCHANGED <<mats, declared, nsets, nops, driverVars>>

TextPaths == {"out.txt"}

TextDims == {0, BigCoord + 2}

TextCoords == {0, 1, BigCoord}

TextValues == {0 - BigVal, 0 - 1, 0, BigVal}

TextInit ==
    /\ mats = <<>>
    /\ declared = <<>>
    /\ lastOp = NoOp
    /\ nsets = 0
    /\ nops = 0
    /\ disk = [p \in TextPaths |-> NoFile]
    /\ NotRunning

TextNext ==
    \/ Construct(TextDims, 1)
    \/ SetElement(TextCoords, TextValues)
    \/ Save(TextPaths)
    \/ Load(TextPaths)

TextSpec == TextInit /\ [][TextNext]_vars

(* ------------------------- parsing a source ---------------------------- *)

Text1(a) == a

Text2(a, b) == Join2(a, b)

Text3(a, b, c) == Join2(Join2(a, b), c)

Text4(a, b, c, d) == Join2(Join2(Join2(a, b), c), d)

\* Candidates for the first line: well-formed, padded with whitespace, with
\* text after or before the pattern, without digits, signed, and a cols line.
RowsLines ==
    {RowsEq \o <<"2">>,
     <<" ", " ">> \o RowsEq \o <<"2", "\t">>,
     RowsEq \o <<"2", "x">>,
     <<"x">> \o RowsEq \o <<"2">>,
     RowsEq,
     RowsEq \o <<"-", "2">>,
     ColsEq \o <<"2">>}

ColsLines ==
    {ColsEq \o <<"1">>,
     ColsEq \o <<"1", ";">>,
     <<"#">> \o ColsEq \o <<"1">>,
     RowsEq \o <<"1">>}

ElemLines ==
    {<<"(", "0", ",", "0", ",", "5", ")">>,
     <<"(", "0", ",", " ", "1", ",", " ", "-", "3", ")">>,
     <<"(", "0", ",", "0", ",", "5", ")", "x">>,
     <<"x", "(", "0", ",", "0", ",", "5", ")">>,
     <<"g", "a", "r", "b", "a", "g", "e">>,
     <<>>,
     <<" ", "\r">>,
     <<"(", "0", ",", "0", ")">>,
     <<"(", " ", "0", ",", "0", ",", "5", ")">>,
     <<"(", "0", " ", ",", "0", ",", "5", ")">>}

LastLines ==
    {<<"(", "1", ",", "0", ",", "7", ")">>,
     <<"o", "o", "p", "s">>}

Sources ==
    {<<>>} \cup {Text1(a) : a \in RowsLines}
    \cup {Text2(a, b) : a \in RowsLines, b \in ColsLines}
    \cup {Text3(a, b, c) : a \in RowsLines, b \in ColsLines, c \in ElemLines}
    \cup {Text4(a, b, c, d) : a \in RowsLines, b \in ColsLines, c \in ElemLines,
                              d \in LastLines}

ParsePaths == {"in.txt"}

ParseInit ==
    /\ mats = <<>>
    /\ declared = <<>>
    /\ lastOp = NoOp
    /\ nsets = 0
    /\ nops = 0
    /\ \E src \in Sources : disk = [p \in ParsePaths |-> src]
    /\ NotRunning

ParseNext == Load(ParsePaths)

ParseSpec == ParseInit /\ [][ParseNext]_vars

(* ------------------------- performCalculations ------------------------- *)

\* The operations table: choice -> method.
operations ==
    [c \in {"1", "2", "3"} |->
        CASE c = "1" -> [name |-> "addition", method |-> "add"]
          [] c = "2" -> [name |-> "subtraction", method |-> "subtract"]
          [] c = "3" -> [name |-> "multiplication", method |-> "multiply"]]

\* matrix1[operation.method](matrix2)
Invoke(method, st, this, other) ==
    CASE method = "add" -> add(st, this, other)
      [] method = "subtract" -> subtract(st, this, other)
      [] method = "multiply" -> multiply(st, this, other)

\* console.log(text), console.error('Error:', error.message), readline.close()
LogEvent(text) == [kind |-> "log", text |-> text, error |-> NoError]

ErrorEvent(err) == [kind |-> "error", text |-> "Error:", error |-> err]

CloseEvent == [kind |-> "close", text |-> "", error |-> NoError]

\* A variant of the finally block that leaves the interface open.
Finally_Skip(lg) == lg

\* finally { readline.close(); }
Finally(lg) == Append(lg, CloseEvent)

\* catch (error) { console.error('Error:', error.message); } and the finally
Catch(lg, err) == Finally(Append(lg, ErrorEvent(err)))

FileC == Join2(Join2(Header(1, 2), ElemLine(0, 0, 1)), ElemLine(0, 1, 2))

FileD == Join2(Join2(Header(2, 1), ElemLine(0, 0, 3)), ElemLine(1, 0, 4))

DriverPaths == SamplePaths \cup {"c.txt", "d.txt", "out.txt", "dir"}

DriverDisk ==
    [p \in DriverPaths |->
        CASE p = "c.txt" -> FileC
          [] p = "d.txt" -> FileD
          [] p = "dir" -> Directory
          [] p = "out.txt" -> NoFile
          [] OTHER -> SampleDisk[p]]

\* The interface is created, the menu is printed and the first question asked.
DriverInit ==
    /\ mats = <<>>
    /\ declared = <<>>
    /\ lastOp = NoOp
    /\ nsets = 0
    /\ nops = 0
    /\ disk = DriverDisk
    /\ pc = "matrix1Path"
    /\ locals = NoLocals
    /\ log = <<LogEvent("Available operations:"), LogEvent("1: addition"),
               LogEvent("2: subtraction"), LogEvent("3: multiplication")>>

\* The answer to a path question arrives: fromFile, then the next question.
LoadStep(at, local, text, next) ==
    \E path \in DriverPaths :
        /\ pc = at
        /\ \E r \in {fromFile(Store, disk, path)} :
               /\ mats' = r.st.mats
               /\ declared' = r.st.declared
               /\ lastOp' = [NoOp EXCEPT !.op = "fromFile", !.ok = r.ok,
                                         !.error = r.error, !.result = r.result,
                                         !.path = path]
               /\ IF r.ok
                  THEN /\ locals' = [locals EXCEPT ![local] = r.result]
                       /\ log' = Append(log, LogEvent(text))
                       /\ pc' = next
                  ELSE /\ log' = Catch(log, r.error)
                       /\ pc' = "done"
                       /\ UNCHANGED locals
        /\ UNCHANGED <<nsets, nops, disk>>

AnswerMatrix1Path ==
    LoadStep("matrix1Path", "matrix1", "First matrix loading........", "matrix2Path")

AnswerMatrix2Path ==
    LoadStep("matrix2Path", "matrix2", "Second matrix loading.......", "operationChoice")

\* The answer to the operation question arrives.
AnswerOperationChoice ==
    \E operationChoice \in {"1", "2", "3", "4", ""} :
        /\ pc = "operationChoice"
        /\ IF operationChoice \notin DOMAIN operations
           THEN /\ lastOp' = [NoOp EXCEPT !.op = "operations[operationChoice]",
                                          !.ok = FALSE,
                                          !.error = Error("Invalid operation choice.", 0)]
                /\ log' = Catch(log, Error("Invalid operation choice.", 0))
                /\ pc' = "done"
                /\ UNCHANGED <<mats, declared, locals, nops>>
           ELSE \E operation \in {operations[operationChoice]} :
                \E r \in {Invoke(operation.method, Store, locals.matrix1, locals.matrix2)} :
                    /\ mats' = r.st.mats
                    /\ declared' = r.st.declared
                    /\ nops' = nops + 1
                    /\ lastOp' = [NoOp EXCEPT !.op = operation.method,
                                              !.this = locals.matrix1,
                                              !.other = locals.matrix2,
                                              !.ok = r.ok, !.error = r.error,
                                              !.result = r.result]
                    /\ IF r.ok
                       THEN /\ locals' = [locals EXCEPT !.resultMatrix = r.result]
                            /\ log' = Append(log, LogEvent("Output of"))
                            /\ pc' = "outputPath"
                       ELSE /\ log' = Catch(log, r.error)
                            /\ pc' = "done"
                            /\ UNCHANGED locals
        /\ UNCHANGED <<nsets, disk>>

\* The answer to the output question arrives: save, report, close.
AnswerOutputPath ==
    \E outputPath \in DriverPaths :
        /\ pc = "outputPath"
        /\ \E w \in {saveToFile(disk, mats[locals.resultMatrix], outputPath)} :
               /\ disk' = w.fs
               /\ lastOp' = [NoOp EXCEPT !.op = "saveToFile",
                                         !.this = locals.resultMatrix,
                                         !.path = outputPath,
                                         !.ok = w.ok, !.error = w.error]
               /\ log' = IF w.ok
                         THEN Finally(Append(log, LogEvent("Output file saved to")))
                         ELSE Catch(log, w.error)
        /\ pc' = "done"
        /\ UNCHANGED <<mats, declared, locals, nsets, nops>>

DriverNext ==
    \/ AnswerMatrix1Path
    \/ AnswerMatrix2Path
    \/ AnswerOperationChoice
    \/ AnswerOutputPath

Awaits == {"matrix1Path", "matrix2Path", "operationChoice", "outputPath"}

\* A pending question is answered.  Every step of DriverNext is such a step
\* (it leaves the await it was at), and one is possible at every await.
Answered == pc \in Awaits /\ pc' \in (Awaits \cup {"done"}) /\ pc' # pc

\* Every question asked is answered.
DriverSpec == DriverInit /\ [][DriverNext]_vars /\ WF_pc(Answered)

(* ------------------------------- claims -------------------------------- *)

Max(a, b) == IF a >= b THEN a ELSE b

ProbeCoords == 0..(MaxDim + MaxCoord + 2)

StoredCoords(m) == {KeyCoords(m.elements[i].key) : i \in 1..Len(m.elements)}

Stores(m, row, col) == <<row, col>> \in StoredCoords(m)

SameDims(a, b) == a.rows = b.rows /\ a.cols = b.cols

\* 1 + the largest member of S, or 0 when S is empty.
Extent(S) == IF S = {} THEN 0 ELSE 1 + CHOOSE x \in S : \A y \in S : y <= x

\* C1: every object's rows is the larger of the rows it was constructed with
\* and 1 + the largest row ever set (likewise cols), so that every stored
\* coordinate lies inside rows x cols.
C1_GrowthOnWrite ==
    \A ref \in Refs :
        LET m == mats[ref]
            sc == StoredCoords(m)
        IN  /\ m.rows = Max(declared[ref].rows, Extent({rc[1] : rc \in sc}))
            /\ m.cols = Max(declared[ref].cols, Extent({rc[2] : rc \in sc}))
            /\ \A rc \in sc : rc[1] < m.rows /\ rc[2] < m.cols

\* An object whose rows grew past the declared rows while its cols did not.
C1_Witness ==
    \E ref \in Refs :
        /\ mats[ref].elements # <<>>
        /\ mats[ref].rows > declared[ref].rows
        /\ mats[ref].cols = declared[ref].cols
        /\ declared[ref].cols > 0

\* C2: add on operands of equal dimensions returns a matrix of those
\* dimensions whose value at every coordinate is the sum of the operands'.
C2_AddIsPointwiseSum ==
    (lastOp.op = "add" /\ SameDims(mats[lastOp.this], mats[lastOp.other])) =>
        /\ lastOp.ok
        /\ SameDims(mats[lastOp.result], mats[lastOp.this])
        /\ \A row \in ProbeCoords, col \in ProbeCoords :
               getElement(mats[lastOp.result], row, col)
                   = getElement(mats[lastOp.this], row, col)
                     + getElement(mats[lastOp.other], row, col)

\* A sum of two different objects with a coordinate stored in both, one
\* stored in the receiver only, and one stored in the argument only.
C2_Witness ==
    /\ lastOp.op = "add" /\ lastOp.ok /\ lastOp.this # lastOp.other
    /\ \E r1 \in ProbeCoords, c1 \in ProbeCoords :
           /\ getElement(mats[lastOp.this], r1, c1) # 0
           /\ getElement(mats[lastOp.other], r1, c1) # 0
    /\ \E r2 \in ProbeCoords, c2 \in ProbeCoords :
           /\ getElement(mats[lastOp.this], r2, c2) # 0
           /\ ~Stores(mats[lastOp.other], r2, c2)
    /\ \E r3 \in ProbeCoords, c3 \in ProbeCoords :
           /\ ~Stores(mats[lastOp.this], r3, c3)
           /\ getElement(mats[lastOp.other], r3, c3) # 0

\* The sum over col in from..(n - 1) of a[row][col] * b[col][k].
RECURSIVE DotProduct(_, _, _, _, _, _)
DotProduct(a, b, row, k, from, n) ==
    IF from >= n THEN 0
    ELSE getElement(a, row, from) * getElement(b, from, k)
         + DotProduct(a, b, row, k, from + 1, n)

\* C3: multiply on operands with this.cols = other.rows returns a matrix of
\* dimensions (this.rows, other.cols) holding the matrix product inside
\* those dimensions and 0 everywhere else.
C3_MultiplyIsMatrixProduct ==
    (lastOp.op = "multiply" /\ mats[lastOp.this].cols = mats[lastOp.other].rows) =>
        LET a == mats[lastOp.this]
            b == mats[lastOp.other]
            p == mats[lastOp.result]
        IN  /\ lastOp.ok
            /\ p.rows = a.rows
            /\ p.cols = b.cols
            /\ \A row \in ProbeCoords, k \in ProbeCoords :
                   getElement(p, row, k)
                       = IF row < a.rows /\ k < b.cols
                         THEN DotProduct(a, b, row, k, 0, a.cols)
                         ELSE 0

\* A product with an entry that sums two nonzero terms.
C3_Witness ==
    /\ lastOp.op = "multiply" /\ lastOp.ok
    /\ \E row \in ProbeCoords, k \in ProbeCoords :
           /\ getElement(mats[lastOp.result], row, k) # 0
           /\ Cardinality({col \in ProbeCoords :
                  getElement(mats[lastOp.this], row, col)
                      * getElement(mats[lastOp.other], col, k) # 0}) >= 2

DimensionError(op) ==
    CASE op = "add" -> Error("Matrices must have the same dimensions for addition.", 0)
      [] op = "subtract" -> Error("Matrices must have the same dimensions for subtraction.", 0)
      [] op = "multiply" -> Error("Number of columns of first matrix must equal number of rows of second matrix.", 0)

\* C4: add and subtract throw the dimension error exactly when the operands'
\* rows or cols differ, multiply exactly when this.cols differs from
\* other.rows; a throwing call returns no matrix and any other call returns one.
C4_DimensionErrors ==
    (lastOp.op \in {"add", "subtract", "multiply"}) =>
        LET a == mats[lastOp.this]
            b == mats[lastOp.other]
            mismatch == IF lastOp.op = "multiply" THEN a.cols # b.rows
                        ELSE ~SameDims(a, b)
        IN  /\ lastOp.ok <=> ~mismatch
            /\ ~lastOp.ok => lastOp.error = DimensionError(lastOp.op) /\ lastOp.result = 0
            /\ lastOp.ok => lastOp.error = NoError /\ lastOp.result \in Refs

\* A multiply that throws although the receiver has more columns than the
\* argument has rows, on operands that add would accept or reject alike.
C4_Witness ==
    /\ lastOp.op = "multiply" /\ ~lastOp.ok
    /\ mats[lastOp.this].cols > mats[lastOp.other].rows
    /\ mats[lastOp.this].elements # <<>>

\* C5: an arithmetic call leaves every object that existed before it as it
\* was (rows, cols, and the elements with their order), also when it throws
\* and when both operands are one object, and returns an object that did not
\* exist before; a setElement call changes no object but its receiver.
C5_OperandsUntouched ==
    [][ /\ nops' # nops =>
            /\ \A i \in Refs : mats'[i] = mats[i]
            /\ lastOp'.ok => lastOp'.result > Len(mats)
            /\ ~lastOp'.ok => mats' = mats
        /\ nsets' # nsets =>
            /\ Len(mats') = Len(mats)
            /\ \A i \in Refs : i # lastOp'.this => mats'[i] = mats[i] ]_vars

\* A matrix with stored elements subtracted from itself.
C5_Witness ==
    /\ lastOp.op = "subtract" /\ lastOp.ok
    /\ lastOp.this = lastOp.other
    /\ Len(mats[lastOp.this].elements) >= 2
    /\ Len(mats[lastOp.result].elements) >= 2

\* C7: on operands of equal dimensions this.add(other).subtract(other)
\* returns a matrix of those dimensions that agrees with this at every
\* coordinate.
C7_SubtractUndoesAdd ==
    (lastOp.op = "add.subtract" /\ SameDims(mats[lastOp.this], mats[lastOp.other])) =>
        /\ lastOp.ok
        /\ SameDims(mats[lastOp.result], mats[lastOp.this])
        /\ \A row \in ProbeCoords, col \in ProbeCoords :
               getElement(mats[lastOp.result], row, col)
                   = getElement(mats[lastOp.this], row, col)

\* The expression on two different objects that share a stored coordinate
\* and each store one the other does not.
C7_Witness ==
    /\ lastOp.op = "add.subtract" /\ lastOp.ok /\ lastOp.this # lastOp.other
    /\ \E rc \in StoredCoords(mats[lastOp.this]) :
           /\ rc \in StoredCoords(mats[lastOp.other])
           /\ getElement(mats[lastOp.other], rc[1], rc[2]) # 0
    /\ StoredCoords(mats[lastOp.this]) \ StoredCoords(mats[lastOp.other]) # {}
    /\ StoredCoords(mats[lastOp.other]) \ StoredCoords(mats[lastOp.this]) # {}

\* C9: the product stores an entry at (row, k) exactly when the receiver
\* stores a nonzero value at some (row, col) for which the argument's value at
\* (col, k) is nonzero; a stored 0 of the receiver creates no entry.
C9_OnlyNonzeroContribute ==
    (lastOp.op = "multiply" /\ lastOp.ok) =>
        \A row \in ProbeCoords, k \in ProbeCoords :
            Stores(mats[lastOp.result], row, k)
                <=> \E col \in ProbeCoords :
                        /\ getElement(mats[lastOp.this], row, col) # 0
                        /\ getElement(mats[lastOp.other], col, k) # 0

TextProbe == 0..(BigCoord + 1)

\* C6: parsing the text that toString produces for a matrix built by the
\* constructor and setElement calls succeeds and yields a matrix with the
\* same rows and cols and the same value at every coordinate.
C6_RoundTrip ==
    \A ref \in Refs :
        (/\ lastOp.op = "fromFile"
         /\ ref # lastOp.result
         /\ disk[lastOp.path] = toString(mats[ref])) =>
            /\ lastOp.ok
            /\ SameDims(mats[lastOp.result], mats[ref])
            /\ \A row \in TextProbe, col \in TextProbe :
                   getElement(mats[lastOp.result], row, col)
                       = getElement(mats[ref], row, col)

\* A round trip of a matrix that grew on a two-digit coordinate and stores a
\* negative two-digit value and an explicit 0.
C6_Witness ==
    /\ lastOp.op = "fromFile" /\ lastOp.ok
    /\ \E ref \in Refs :
           /\ ref # lastOp.result
           /\ disk[lastOp.path] = toString(mats[ref])
           /\ mats[ref].rows = BigCoord + 1
           /\ mats[ref].cols = BigCoord + 2
           /\ \E i, j \in 1..Len(mats[ref].elements) :
                  /\ mats[ref].elements[i].value = 0 - BigVal
                  /\ mats[ref].elements[j].value = 0
           /\ getElement(mats[lastOp.result], BigCoord, 1) = 0 - BigVal

\* A line that is exactly <lit><digits>.
ExactDim(line, lit) ==
    /\ Len(line) > Len(lit)
    /\ SubSeq(line, 1, Len(lit)) = lit
    /\ AllDigits(SubSeq(line, Len(lit) + 1, Len(line)))

\* A line that is exactly (<row>,<col>,<value>), whitespace allowed after the
\* commas only.
ExactElem(line) ==
    /\ ElemMatchAt(line, 1)
    /\ ElemPieces(line, 1).close = Len(line)

\* The 1-based numbers of the element lines that are neither blank nor exact.
BadElemLines(lines) ==
    {n \in 3..Len(lines) : lines[n] # <<>> /\ ~ExactElem(lines[n])}

HeaderExact(lines) ==
    /\ Len(lines) >= 2
    /\ ExactDim(lines[1], RowsEq)
    /\ ExactDim(lines[2], ColsEq)

FormatMessages ==
    {"does not contain enough lines for matrix dimensions",
     "Invalid dimension format", "Invalid format at line"}

\* C8: fromFile returns a matrix only for a source whose first two trimmed
\* lines are exactly rows=<digits> and cols=<digits> and whose later non-blank
\* trimmed lines are exactly (<row>,<col>,<value>); for any other source it
\* throws a format error and returns nothing, and when the header is exact the
\* error names the 1-based number of the first offending line.
C8_StrictFormat ==
    (lastOp.op = "fromFile" /\ disk[lastOp.path] # NoFile) =>
        LET lines == TrimmedLines(disk[lastOp.path])
            bad == BadElemLines(lines)
        IN  ~(HeaderExact(lines) /\ bad = {}) =>
                /\ ~lastOp.ok
                /\ lastOp.result = 0
                /\ lastOp.error.message \in FormatMessages
                /\ HeaderExact(lines) =>
                       lastOp.error
                           = Error("Invalid format at line",
                                   CHOOSE n \in bad : \A n2 \in bad : n <= n2)

Count(lg, kind) == Cardinality({i \in 1..Len(lg) : lg[i].kind = kind})

Saved == \E i \in 1..Len(log) : log[i] = LogEvent("Output file saved to")

\* What holds of the driver at every moment: the interface is closed only
\* when the run is over, and then once; the steps run in order and none runs
\* after a failure; a failure's message is printed just before the close.
DriverSafe ==
    /\ pc \in Awaits \cup {"done"}
    /\ Count(log, "close") = (IF pc = "done" THEN 1 ELSE 0)
    /\ Count(log, "error") <= 1
    /\ pc # "done" => Count(log, "error") = 0 /\ lastOp.ok
    /\ locals.matrix2 # 0 => locals.matrix1 # 0
    /\ nops > 0 => locals.matrix2 # 0
    /\ locals.resultMatrix # 0 => nops = 1
    /\ (disk # DriverDisk \/ Saved) => locals.resultMatrix # 0 /\ Count(log, "error") = 0
    /\ pc = "done" =>
           /\ log[Len(log)] = CloseEvent
           /\ IF lastOp.ok
              THEN /\ lastOp.op = "saveToFile"
                   /\ Saved
                   /\ Count(log, "error") = 0
                   /\ disk[lastOp.path] = toString(mats[locals.resultMatrix])
              ELSE /\ log[Len(log) - 1] = ErrorEvent(lastOp.error)
                   /\ ~Saved
                   /\ disk = DriverDisk
                   /\ lastOp.op = "fromFile" => nops = 0 /\ locals.matrix2 = 0
                   /\ lastOp.op = "operations[operationChoice]" =>
                          nops = 0 /\ locals.resultMatrix = 0 /\ Len(mats) = 2
                   /\ lastOp.op \in {"add", "subtract", "multiply"} =>
                          locals.resultMatrix = 0 /\ Len(mats) = 2

\* C10: every run of the driver ends with the interface closed, exactly
\* once, whichever step fails or none; after a failing step no later step
\* has run, and the failure's message is printed before the close.
C10_SessionClosedOnce == <>(pc = "done") /\ []DriverSafe

\* A run that ended because the chosen operation threw a dimension error.
C10_Witness ==
    /\ pc = "done"
    /\ lastOp.op = "multiply" /\ ~lastOp.ok
    /\ Count(log, "close") = 1
    /\ log[Len(log) - 1] = ErrorEvent(DimensionError("multiply"))

====
